---- MODULE Spec2Model ----
(***************************************************************************)
(* Model of final_interview_rag.py: the deferred-evaluation interview      *)
(* pipeline of RAGInterviewBot (construction, question generation, the     *)
(* main question loop, per-answer analysis, follow-up generation and the   *)
(* closing phase), together with extract_json_from_response and the part   *)
(* of json.loads / Python container semantics the pipeline relies on.      *)
(*                                                                         *)
(* Texts are sequences of one-character strings.  JSON values are records  *)
(* of one shape, [t, s, keys, items], so that any two values compare; the  *)
(* keys of a dict are held as joined strings.                              *)
(***************************************************************************)
EXTENDS Integers, Sequences, FiniteSets, TLC

\* Largest number of questions a generated batch holds in the model.
MaxQuestions == 2

----------------------------------------------------------------------------
\* Characters and literal texts

Whitespace == {" ", "\n"}
Digits == {"0", "1", "2", "3", "4", "5", "6", "7", "8", "9"}

str_error == <<"e", "r", "r", "o", "r">>
str_questions == <<"q", "u", "e", "s", "t", "i", "o", "n", "s">>
str_follow_up_question ==
    <<"f", "o", "l", "l", "o", "w", "_", "u", "p", "_", "q", "u", "e", "s", "t", "i", "o", "n">>
str_fact_checking == <<"f", "a", "c", "t", "_", "c", "h", "e", "c", "k", "i", "n", "g">>
str_content_analysis ==
    <<"c", "o", "n", "t", "e", "n", "t", "_", "a", "n", "a", "l", "y", "s", "i", "s">>
str_analytical_depth ==
    <<"a", "n", "a", "l", "y", "t", "i", "c", "a", "l", "_", "d", "e", "p", "t", "h">>
str_strategic_insight ==
    <<"s", "t", "r", "a", "t", "e", "g", "i", "c", "_", "i", "n", "s", "i", "g", "h", "t">>
str_actionable_feedback ==
    <<"a", "c", "t", "i", "o", "n", "a", "b", "l", "e", "_", "f", "e", "e", "d", "b", "a", "c", "k">>
str_suggestions_for_improvement ==
    <<"s", "u", "g", "g", "e", "s", "t", "i", "o", "n", "s", "_", "f", "o", "r", "_",
      "i", "m", "p", "r", "o", "v", "e", "m", "e", "n", "t">>
str_core_competency_analysis ==
    <<"c", "o", "r", "e", "_", "c", "o", "m", "p", "e", "t", "e", "n", "c", "y", "_">>
    \o <<"a", "n", "a", "l", "y", "s", "i", "s">>
str_overall_summary ==
    <<"o", "v", "e", "r", "a", "l", "l", "_", "s", "u", "m", "m", "a", "r", "y">>
str_growth_potential ==
    <<"g", "r", "o", "w", "t", "h", "_", "p", "o", "t", "e", "n", "t", "i", "a", "l">>
str_null == <<"n", "u", "l", "l">>
\* one backquote character
BackTick == "BQ"
str_fence_open == <<BackTick, BackTick, BackTick, "j", "s", "o", "n">>
str_fence_close == <<BackTick, BackTick, BackTick>>
\* the two quit sentinels of line 214; the localized one is two syllables
str_quit == <<"/", "q", "u", "i", "t">>
str_quit_localized == <<"/", "JONG", "RYO">>

----------------------------------------------------------------------------
\* JSON values as Python sees them after json.loads

JNull == [t |-> "null", s |-> <<>>, keys |-> <<>>, items |-> <<>>]
JNum(digits) == [t |-> "num", s |-> digits, keys |-> <<>>, items |-> <<>>]
JStr(chars) == [t |-> "str", s |-> chars, keys |-> <<>>, items |-> <<>>]
JList(vs) == [t |-> "list", s |-> <<>>, keys |-> <<>>, items |-> vs]
JDict(ks, vs) == [t |-> "dict", s |-> <<>>, keys |-> ks, items |-> vs]

IsDict(v) == v.t = "dict"

\* the characters joined into one string; dict keys are kept in this form
RECURSIVE Flat(_)
Flat(chars) == IF chars = <<>> THEN "" ELSE chars[1] \o Flat(Tail(chars))

\* key in d, for a dict d and a key given by its characters
HasKey(d, k) == \E n \in DOMAIN d.keys : d.keys[n] = Flat(k)

\* d[k] for a key that is present; a repeated key keeps its last value
DictAt(d, k) ==
    LET n == CHOOSE m \in DOMAIN d.keys :
                 /\ d.keys[m] = Flat(k)
                 /\ \A m2 \in DOMAIN d.keys : d.keys[m2] = Flat(k) => m2 <= m
    IN  d.items[n]

\* d.get(k, default), for a dict d
DictGet(d, k, default) == IF HasKey(d, k) THEN DictAt(d, k) ELSE default

\* bool(v)
Truthy(v) ==
    CASE v.t = "null" -> FALSE
      [] v.t = "num" -> v.s # <<"0">>
      [] v.t = "str" -> v.s # <<>>
      [] v.t = "list" -> v.items # <<>>
      [] v.t = "dict" -> v.keys # <<>>

\* needle occurs in hay as a contiguous run (str.__contains__)
IsSubstring(needle, hay) ==
    \E p \in 1..(Len(hay) - Len(needle) + 1) :
        SubSeq(hay, p, p + Len(needle) - 1) = needle

----------------------------------------------------------------------------
\* json.loads on the JSON subset: null, digits, "string", [array], {object}

RECURSIVE SkipWs(_, _)
SkipWs(s, p) ==
    IF p <= Len(s) /\ s[p] \in Whitespace THEN SkipWs(s, p + 1) ELSE p

RECURSIVE ScanDigits(_, _)
ScanDigits(s, p) ==
    IF p <= Len(s) /\ s[p] \in Digits THEN ScanDigits(s, p + 1) ELSE p

RECURSIVE ScanQuote(_, _)
ScanQuote(s, p) ==
    IF p > Len(s) THEN 0 ELSE IF s[p] = "\"" THEN p ELSE ScanQuote(s, p + 1)

ParseFail == [ok |-> FALSE, v |-> JNull, p |-> 0]
ParseOk(v, p) == [ok |-> TRUE, v |-> v, p |-> p]

\* a string literal starting at the quote s[p]
ParseString(s, p) ==
    LET q == ScanQuote(s, p + 1)
    IN  IF q = 0 THEN ParseFail ELSE ParseOk(JStr(SubSeq(s, p + 1, q - 1)), q + 1)

RECURSIVE ParseValue(_, _)
RECURSIVE ParseItems(_, _, _)
RECURSIVE ParseMembers(_, _, _, _)

ParseValue(s, p0) ==
    LET p == SkipWs(s, p0)
    IN  IF p > Len(s) THEN ParseFail
        ELSE CASE s[p] = "n" ->
                    IF p + 3 <= Len(s) /\ SubSeq(s, p, p + 3) = str_null
                    THEN ParseOk(JNull, p + 4) ELSE ParseFail
               [] s[p] \in Digits ->
                    LET q == ScanDigits(s, p)
                    IN  ParseOk(JNum(SubSeq(s, p, q - 1)), q)
               [] s[p] = "\"" -> ParseString(s, p)
               [] s[p] = "[" ->
                    LET q == SkipWs(s, p + 1)
                    IN  IF q <= Len(s) /\ s[q] = "]"
                        THEN ParseOk(JList(<<>>), q + 1)
                        ELSE ParseItems(s, p + 1, <<>>)
               [] s[p] = "{" ->
                    LET q == SkipWs(s, p + 1)
                    IN  IF q <= Len(s) /\ s[q] = "}"
                        THEN ParseOk(JDict(<<>>, <<>>), q + 1)
                        ELSE ParseMembers(s, p + 1, <<>>, <<>>)
               [] OTHER -> ParseFail

ParseItems(s, p, acc) ==
    LET r == ParseValue(s, p)
    IN  IF ~r.ok THEN ParseFail
        ELSE LET q == SkipWs(s, r.p)
             IN  IF q > Len(s) THEN ParseFail
                 ELSE IF s[q] = "," THEN ParseItems(s, q + 1, Append(acc, r.v))
                 ELSE IF s[q] = "]" THEN ParseOk(JList(Append(acc, r.v)), q + 1)
                 ELSE ParseFail

ParseMembers(s, p, ks, vs) ==
    LET a == SkipWs(s, p)
    IN  IF a > Len(s) \/ s[a] # "\"" THEN ParseFail
        ELSE LET k == ParseString(s, a)
                 c == SkipWs(s, k.p)
             IN  IF ~k.ok \/ c > Len(s) \/ s[c] # ":" THEN ParseFail
                 ELSE LET r == ParseValue(s, c + 1)
                          q == SkipWs(s, r.p)
                      IN  IF ~r.ok \/ q > Len(s) THEN ParseFail
                          ELSE IF s[q] = ","
                               THEN ParseMembers(s, q + 1, Append(ks, Flat(k.v.s)), Append(vs, r.v))
                          ELSE IF s[q] = "}"
                               THEN ParseOk(JDict(Append(ks, Flat(k.v.s)), Append(vs, r.v)), q + 1)
                          ELSE ParseFail

\* json.loads(s): ok = FALSE stands for JSONDecodeError
json_loads(s) ==
    LET r == ParseValue(s, 1)
    IN  IF r.ok /\ SkipWs(s, r.p) > Len(s) THEN [ok |-> TRUE, v |-> r.v]
        ELSE [ok |-> FALSE, v |-> JNull]

----------------------------------------------------------------------------
\* extract_json_from_response (lines 15-25)

StartsAt(s, p, lit) ==
    /\ p >= 1
    /\ p + Len(lit) - 1 <= Len(s)
    /\ SubSeq(s, p, p + Len(lit) - 1) = lit

SetMin(S) == CHOOSE x \in S : \A y \in S : x <= y
SetMax(S) == CHOOSE x \in S : \A y \in S : y <= x

\* ends e of group(1) for a match of the fenced-json pattern of line 18 that starts at p
FenceEnds(s, p) ==
    LET b == SkipWs(s, p + Len(str_fence_open))
    IN  IF StartsAt(s, p, str_fence_open) /\ b <= Len(s) /\ s[b] = "{"
        THEN {e \in (b + 1)..Len(s) :
                 s[e] = "}" /\ StartsAt(s, SkipWs(s, e + 1), str_fence_close)}
        ELSE {}

\* extract_json_from_response with the fenced pattern matched greedily
extract_json_from_response_GreedyFence(text) ==
    LET starts == {p \in 1..Len(text) : FenceEnds(text, p) # {}}
        opens == {p \in 1..Len(text) : text[p] = "{"}
        closes == {p \in 1..Len(text) : text[p] = "}"}
    IN  IF starts # {}
        THEN LET p == SetMin(starts)
                 b == SkipWs(text, p + Len(str_fence_open))
             IN  SubSeq(text, b, SetMax(FenceEnds(text, p)))
        ELSE IF opens # {} /\ closes # {} /\ SetMin(opens) < SetMax(closes)
        THEN SubSeq(text, SetMin(opens), SetMax(closes))
        ELSE text

\* extract_json_from_response with the brace pattern matched lazily
extract_json_from_response_LazyBraces(text) ==
    LET starts == {p \in 1..Len(text) : FenceEnds(text, p) # {}}
        opens == {p \in 1..Len(text) : text[p] = "{"}
        closes == {p \in 1..Len(text) : text[p] = "}"}
    IN  IF starts # {}
        THEN LET p == SetMin(starts)
                 b == SkipWs(text, p + Len(str_fence_open))
             IN  SubSeq(text, b, SetMin(FenceEnds(text, p)))
        ELSE IF opens # {} /\ closes # {} /\ SetMin(opens) < SetMax(closes)
        THEN SubSeq(text, SetMin(opens),
                    SetMin({c \in closes : SetMin(opens) < c}))
        ELSE text

extract_json_from_response(text) ==
    LET starts == {p \in 1..Len(text) : FenceEnds(text, p) # {}}
        opens == {p \in 1..Len(text) : text[p] = "{"}
        closes == {p \in 1..Len(text) : text[p] = "}"}
    IN  IF starts # {}
        THEN LET p == SetMin(starts)
                 b == SkipWs(text, p + Len(str_fence_open))
             IN  SubSeq(text, b, SetMin(FenceEnds(text, p)))
        ELSE IF opens # {} /\ closes # {} /\ SetMin(opens) < SetMax(closes)
        THEN SubSeq(text, SetMin(opens), SetMax(closes))
        ELSE text

----------------------------------------------------------------------------
\* Python operations the pipeline applies to parsed values

\* ContainsError with None taken to hold no error instead of raising
ContainsError_NoneTolerant(v) ==
    CASE v.t = "dict" -> [raised |-> FALSE, val |-> HasKey(v, str_error)]
      [] v.t = "str" -> [raised |-> FALSE, val |-> IsSubstring(str_error, v.s)]
      [] v.t = "list" ->
            [raised |-> FALSE,
             val |-> \E n \in DOMAIN v.items : v.items[n] = JStr(str_error)]
      [] OTHER -> [raised |-> FALSE, val |-> FALSE]

\* "error" in v (lines 136, 221): TypeError for None and numbers
ContainsError(v) ==
    CASE v.t = "dict" -> [raised |-> FALSE, val |-> HasKey(v, str_error)]
      [] v.t = "str" -> [raised |-> FALSE, val |-> IsSubstring(str_error, v.s)]
      [] v.t = "list" ->
            [raised |-> FALSE,
             val |-> \E n \in DOMAIN v.items : v.items[n] = JStr(str_error)]
      [] OTHER -> [raised |-> TRUE, val |-> FALSE]

\* the elements a for loop over v visits; only asked of values that iterate
PyIter(v) ==
    CASE v.t = "list" -> v.items
      [] v.t = "str" -> [n \in DOMAIN v.s |-> JStr(<<v.s[n]>>)]
      [] v.t = "dict" -> [n \in DOMAIN v.keys |-> JStr(<<v.keys[n]>>)]
      [] OTHER -> <<>>

\* iter(v) / len(v) raises TypeError
NotIterable(v) == v.t \in {"null", "num"}

\* str.lower() on the characters the inputs use
LowerChar(c) ==
    CASE c = "Q" -> "q"
      [] c = "U" -> "u"
      [] c = "I" -> "i"
      [] c = "T" -> "t"
      [] c = "Y" -> "y"
      [] OTHER -> c

lower(chars) == [n \in DOMAIN chars |-> LowerChar(chars[n])]

\* IsQuit without the lower() of line 214
IsQuit_CaseSensitive(ans) == ans \in {str_quit, str_quit_localized}

\* answer.lower() in the two sentinels (line 214)
IsQuit(ans) == lower(ans) \in {str_quit, str_quit_localized}

----------------------------------------------------------------------------
\* Outcomes of the external capabilities: a call returns a text or raises an
\* exception e; msg is str(e), which Python allows to be empty.

Returned(text) == [raised |-> FALSE, msg |-> <<>>, text |-> text]
Raised(msg) == [raised |-> TRUE, msg |-> msg, text |-> <<>>]

ExcMessages == {<<>>, <<"b", "o", "o", "m">>}
\* str(e) of a JSONDecodeError, an AttributeError, a TypeError
DecodeErrorMsg == <<"E", "x", "p", "e", "c", "t", "i", "n", "g">>

Failures == {Raised(m) : m \in ExcMessages}
\* rag_system.query and google_search.search: the text itself is not inspected
EvidenceOutcomes == {Returned(<<"f", "a", "c", "t", "s">>)} \cup Failures

\* builders for the texts a completion may send back
Quoted(chars) == <<"\"">> \o chars \o <<"\"">>
Member(key, valueText) == Quoted(key) \o <<":">> \o valueText
Fenced(body) == str_fence_open \o <<"\n">> \o body \o <<"\n">> \o str_fence_close

\* the response format the analysis prompt asks for (lines 114-123)
FullEvaluationText ==
    <<"{">>
    \o Member(str_fact_checking, <<"[", "]">>) \o <<",", " ">>
    \o Member(str_content_analysis,
              <<"{">> \o Member(str_analytical_depth, <<"{", "}">>) \o <<",">>
              \o Member(str_strategic_insight, <<"{", "}">>) \o <<"}">>)
    \o <<",", " ">>
    \o Member(str_actionable_feedback,
              <<"{">> \o Member(str_suggestions_for_improvement,
                                <<"[">> \o Quoted(<<"s">>) \o <<"]">>) \o <<"}">>)
    \o <<"}">>

AnalysisTexts ==
    { Fenced(FullEvaluationText),
      FullEvaluationText,
      <<"{", "}">>,
      <<"{">> \o Member(str_error, Quoted(<<"x">>)) \o <<",">>
              \o Member(str_fact_checking, <<"[", "]">>) \o <<"}">>,
      <<"{">> \o Member(str_actionable_feedback, str_null) \o <<"}">>,
      str_null,
      <<"7">>,
      Quoted(str_error),
      Quoted(<<"o", "k">>),
      <<"[">> \o Quoted(str_error) \o <<"]">>,
      <<"[", "]">>,
      <<"{", "o", "o", "p", "s">> }

AnalysisOutcomes == {Returned(t) : t \in AnalysisTexts} \cup Failures

FollowUpTexts ==
    { <<"{">> \o Member(str_follow_up_question, Quoted(<<"w", "h", "y">>)) \o <<"}">>,
      <<"{">> \o Member(str_follow_up_question, str_null) \o <<"}">>,
      <<"{", "}">>,
      str_null }

FollowUpOutcomes == {Returned(t) : t \in FollowUpTexts} \cup {Raised(<<>>)}

\* the n-th generated question is the text Q<n>
QuestionDigits == <<"1", "2", "3", "4", "5", "6", "7", "8", "9">>

RECURSIVE QuestionItems(_)
QuestionItems(n) ==
    IF n = 0 THEN <<>>
    ELSE (IF n = 1 THEN <<>> ELSE QuestionItems(n - 1) \o <<",">>)
         \o Quoted(<<"Q", QuestionDigits[n]>>)

\* {"questions": ["Q0", ...]} with n questions (lines 72-74)
QuestionsText(n) ==
    <<"{">> \o Member(str_questions, <<"[">> \o QuestionItems(n) \o <<"]">>) \o <<"}">>

QuestionTexts ==
    {QuestionsText(n) : n \in 0..MaxQuestions}
    \cup { Fenced(QuestionsText(1)),
           <<"{", "}">>,
           <<"{">> \o Member(str_questions, str_null) \o <<"}">>,
           <<"{">> \o Member(str_questions, Quoted(<<"q">>)) \o <<"}">>,
           str_null,
           <<"{", "o", "o", "p", "s">> }

QuestionOutcomes == {Returned(t) : t \in QuestionTexts} \cup {Raised(<<>>)}

MainAnswers == {str_quit, <<"/", "Q", "U", "I", "T">>, str_quit_localized, <<"a">>}
FollowUpAnswers == {str_quit, <<"a">>, <<>>}

----------------------------------------------------------------------------
\* The methods of RAGInterviewBot as functions of the outcomes of their calls

EmptyText == JStr(<<>>)
EmptyDict == JDict(<<>>, <<>>)

\* {"error": str(e)} (lines 90, 132)
ErrorMarker(msg) == JDict(<<Flat(str_error)>>, <<JStr(msg)>>)

\* the single question generate_questions falls back to (line 86)
FallbackQuestions == JList(<<JStr(<<"Q", "F">>)>>)

\* one entry of the trace of observable steps: the step, the turn it belongs
\* to (0 outside the loop) and how it went or, for an input, what was typed
Event(e, n, r) == [e |-> e, n |-> n, r |-> r]
Result(o) == IF o.raised THEN "raise" ELSE "ok"

\* the try block of generate_questions (lines 67-83) raises
generate_questions_raises(query, completion) ==
    \/ query.raised
    \/ completion.raised
    \/ LET result == json_loads(extract_json_from_response(completion.text))
       IN  \/ ~result.ok
           \/ ~IsDict(result.v)
           \/ NotIterable(DictGet(result.v, str_questions, JList(<<>>)))

\* generate_questions with the except branch returning no question
generate_questions_NoFallback(ready, query, completion) ==
    IF ~ready \/ generate_questions_raises(query, completion) THEN JList(<<>>)
    ELSE DictGet(json_loads(extract_json_from_response(completion.text)).v,
                 str_questions, JList(<<>>))

\* generate_questions (lines 62-86): the value it returns
generate_questions(ready, query, completion) ==
    IF ~ready THEN JList(<<>>)
    ELSE IF generate_questions_raises(query, completion) THEN FallbackQuestions
    ELSE DictGet(json_loads(extract_json_from_response(completion.text)).v,
                 str_questions, JList(<<>>))

\* the external calls generate_questions makes and the diagnostic of line 85
generate_questions_calls(ready, query, completion) ==
    IF ~ready THEN <<>>
    ELSE <<Event("query_summary", 0, Result(query))>>
         \o (IF query.raised THEN <<>>
             ELSE <<Event("complete_questions", 0, Result(completion))>>)
         \o (IF generate_questions_raises(query, completion)
             THEN <<Event("questions_diag", 0, "raise")>>
             ELSE <<>>)

\* analyze_answer_with_rag with the except branch filling in an empty
\* fact_checking next to the error
analyze_answer_with_rag_PartialOnFailure(ready, query, search, completion) ==
    LET failed(msg) == JDict(<<Flat(str_error), Flat(str_fact_checking)>>,
                             <<JStr(msg), JList(<<>>)>>)
    IN  IF ~ready THEN ErrorMarker(<<"n", "o", "t", " ", "r", "e", "a", "d", "y">>)
        ELSE IF query.raised THEN failed(query.msg)
        ELSE IF search.raised THEN failed(search.msg)
        ELSE IF completion.raised THEN failed(completion.msg)
        ELSE LET result == json_loads(extract_json_from_response(completion.text))
             IN  IF result.ok THEN result.v ELSE failed(DecodeErrorMsg)

\* analyze_answer_with_rag (lines 88-132): the value it returns
analyze_answer_with_rag(ready, query, search, completion) ==
    IF ~ready THEN ErrorMarker(<<"n", "o", "t", " ", "r", "e", "a", "d", "y">>)
    ELSE IF query.raised THEN ErrorMarker(query.msg)
    ELSE IF search.raised THEN ErrorMarker(search.msg)
    ELSE IF completion.raised THEN ErrorMarker(completion.msg)
    ELSE LET result == json_loads(extract_json_from_response(completion.text))
         IN  IF result.ok THEN result.v ELSE ErrorMarker(DecodeErrorMsg)

\* the external calls analyze_answer_with_rag makes for turn n, in order, and
\* the diagnostic of line 131 when its try block raised
\* analyze_calls with the search made although the retrieval call raised
analyze_calls_SearchAfterFailure(n, ready, query, search, completion) ==
    IF ~ready THEN <<>>
    ELSE <<Event("query", n, Result(query)), Event("search", n, Result(search))>>
         \o (IF query.raised \/ search.raised THEN <<>>
             ELSE <<Event("complete_analysis", n, Result(completion))>>)
         \o (IF \/ query.raised \/ search.raised \/ completion.raised
                \/ ~json_loads(extract_json_from_response(completion.text)).ok
             THEN <<Event("analysis_diag", n, "raise")>>
             ELSE <<>>)

analyze_calls(n, ready, query, search, completion) ==
    IF ~ready THEN <<>>
    ELSE <<Event("query", n, Result(query))>>
         \o (IF query.raised THEN <<>>
             ELSE <<Event("search", n, Result(search))>>
                  \o (IF search.raised THEN <<>>
                      ELSE <<Event("complete_analysis", n, Result(completion))>>))
         \o (IF \/ query.raised \/ search.raised \/ completion.raised
                \/ ~json_loads(extract_json_from_response(completion.text)).ok
             THEN <<Event("analysis_diag", n, "raise")>>
             ELSE <<>>)

\* ', '.join(v) succeeds (line 181)
Joinable(v) ==
    CASE v.t = "list" -> \A n \in DOMAIN v.items : v.items[n].t = "str"
      [] v.t \in {"str", "dict"} -> TRUE
      [] OTHER -> FALSE

\* lines 180-181 complete without raising, so that the completion is called
follow_up_prompt_built(analysis) ==
    /\ IsDict(analysis)
    /\ LET feedback == DictGet(analysis, str_actionable_feedback, EmptyDict)
       IN  /\ IsDict(feedback)
           /\ Joinable(DictGet(feedback, str_suggestions_for_improvement, JList(<<>>)))

\* generate_follow_up_question (lines 177-190): the value it returns
generate_follow_up_question(analysis, completion) ==
    IF ~follow_up_prompt_built(analysis) \/ completion.raised THEN EmptyText
    ELSE LET result == json_loads(extract_json_from_response(completion.text))
         IN  IF ~result.ok \/ ~IsDict(result.v) THEN EmptyText
             ELSE DictGet(result.v, str_follow_up_question, EmptyText)

\* the try block of generate_follow_up_question (lines 180-187) raises
follow_up_raises(analysis, completion) ==
    \/ ~follow_up_prompt_built(analysis)
    \/ completion.raised
    \/ LET result == json_loads(extract_json_from_response(completion.text))
       IN  ~result.ok \/ ~IsDict(result.v)

\* the external call generate_follow_up_question makes for turn n and the
\* diagnostic of line 189
follow_up_calls(n, analysis, completion) ==
    (IF follow_up_prompt_built(analysis)
     THEN <<Event("complete_followup", n, Result(completion))>>
     ELSE <<>>)
    \o (IF follow_up_raises(analysis, completion)
        THEN <<Event("follow_up_diag", n, "raise")>>
        ELSE <<>>)

\* a for loop over v whose body calls .get on each element raises
LoopOfGetsRaises(v) ==
    \/ NotIterable(v)
    \/ \E n \in DOMAIN PyIter(v) : ~IsDict(PyIter(v)[n])

\* print_individual_analysis (lines 134-175) raises on this analysis
print_individual_analysis_raises(analysis) ==
    LET c == ContainsError(analysis)
    IN  IF c.raised THEN TRUE
        ELSE IF c.val THEN ~IsDict(analysis)
        ELSE IF ~IsDict(analysis) THEN TRUE
        ELSE LET content == DictGet(analysis, str_content_analysis, EmptyDict)
                 feedback == DictGet(analysis, str_actionable_feedback, EmptyDict)
                 fact_checks == DictGet(analysis, str_fact_checking, JList(<<>>))
             IN  \/ Truthy(fact_checks) /\ LoopOfGetsRaises(fact_checks)
                 \/ ~IsDict(content)
                 \/ ~IsDict(DictGet(content, str_analytical_depth, EmptyDict))
                 \/ ~IsDict(DictGet(content, str_strategic_insight, EmptyDict))
                 \/ ~IsDict(feedback)
                 \/ LET strengths == DictGet(feedback, <<"s", "t", "r", "e", "n", "g", "t", "h", "s">>,
                                             JList(<<>>))
                        suggestions == DictGet(feedback, str_suggestions_for_improvement,
                                               JList(<<>>))
                    IN  \/ Truthy(strengths) /\ NotIterable(strengths)
                        \/ Truthy(suggestions) /\ NotIterable(suggestions)

\* what print_individual_analysis shows when it does not raise
print_individual_analysis_shows(analysis) ==
    IF ContainsError(analysis).val THEN "error_line" ELSE "analysis"

\* the digest loop of generate_final_report (lines 258-261) raises
summary_raises(transcript) ==
    \E n \in DOMAIN transcript :
        LET a == transcript[n].analysis
        IN  \/ ~IsDict(a)
            \/ LET content == DictGet(a, str_content_analysis, EmptyDict)
               IN  \/ ~IsDict(content)
                   \/ ~IsDict(DictGet(content, str_strategic_insight, EmptyDict))

\* print_final_report (lines 296-314): what it prints before returning or raising
print_final_report(report) ==
    IF ~Truthy(report) THEN <<>>
    ELSE <<Event("report_header", 0, "ok")>>
         \o (IF ~IsDict(report) THEN <<Event("report_diag", 0, "raise")>>
             ELSE <<Event("report_summary", 0, "ok")>>
                  \o (IF LoopOfGetsRaises(DictGet(report, str_core_competency_analysis,
                                                  JList(<<>>)))
                      THEN <<Event("report_diag", 0, "raise")>>
                      ELSE <<Event("report_competencies", 0, "ok"),
                             Event("report_growth", 0, "ok")>>))

\* generate_final_report (lines 249-294): the calls it makes and what it prints;
\* the event of the completion call carries the response it returned
generate_final_report(transcript, completion) ==
    <<Event("final_report", Len(transcript), "ok")>>
    \o (IF summary_raises(transcript) THEN <<Event("report_diag", 0, "raise")>>
        ELSE <<Event("complete_report", 0,
                     IF completion.raised THEN "raise" ELSE Flat(completion.text))>>
             \o (IF completion.raised THEN <<Event("report_diag", 0, "raise")>>
                 ELSE LET report_data ==
                              json_loads(extract_json_from_response(completion.text))
                      IN  IF ~report_data.ok THEN <<Event("report_diag", 0, "raise")>>
                          ELSE print_final_report(report_data.v)))

ReportTexts ==
    { <<"{">> \o Member(str_overall_summary, Quoted(<<"s">>)) \o <<",">>
              \o Member(str_core_competency_analysis, <<"[", "{", "}", "]">>) \o <<",">>
              \o Member(str_growth_potential, Quoted(<<"g">>)) \o <<"}">>,
      <<"{">> \o Member(str_core_competency_analysis, <<"[", "7", "]">>) \o <<"}">>,
      <<"{", "}">>,
      Quoted(<<"o", "k">>),
      <<"{", "o", "o", "p", "s">> }

ReportOutcomes == {Returned(t) : t \in ReportTexts} \cup {Raised(<<>>)}

----------------------------------------------------------------------------
\* The session: RAGInterviewBot.__init__ followed by conduct_interview

VARIABLES
    pc,                     \* the position of the single thread of control
    rag_ready,              \* self.rag_ready
    questions,              \* the value generate_questions returned
    i,                      \* the loop counter of line 210
    answer,                 \* the main answer of the current turn
    analysis,               \* the evaluation of the current turn
    follow_up_question,     \* line 219 / 222
    follow_up_answer,       \* line 220 / 226
    interview_transcript,   \* line 208
    item,                   \* position of the closing loop of line 243
    log,                    \* the observable steps so far, in order
    text,                   \* the argument of a call of extract_json_from_response alone
    extracted               \* what that call returned

vars == <<pc, rag_ready, questions, i, answer, analysis, follow_up_question,
          follow_up_answer, interview_transcript, item, log, text, extracted>>

\* the session leaves the variables of the lone extractor call alone
extract_vars == <<text, extracted>>

turn_vars == <<answer, analysis, follow_up_question, follow_up_answer>>

\* how the set-up of lines 46-60 can go
SetupOutcomes == {"connect_raises", "no_blobs", "sync_raises", "ready"}
SyncInputs == {<<"y">>, <<"Y">>, <<"n">>}

Init ==
    /\ pc = "new"
    /\ rag_ready = FALSE
    /\ questions = JList(<<>>)
    /\ i = 0
    /\ answer = <<>>
    /\ analysis = JNull
    /\ follow_up_question = EmptyText
    /\ follow_up_answer = <<>>
    /\ interview_transcript = <<>>
    /\ item = 0
    /\ log = <<>>
    /\ text = <<>>
    /\ extracted = <<>>

\* __init__ with rag_ready set before sync_index is called
Construct_ReadyBeforeSync ==
    /\ pc = "new"
    /\ \E outcome \in SetupOutcomes, typed \in SyncInputs :
          LET connected == outcome # "connect_raises"
              asked == outcome \in {"sync_raises", "ready"}
              synced == asked /\ lower(typed) = <<"y">>
          IN  /\ outcome = "sync_raises" => synced
              /\ rag_ready' = asked
              /\ log' = log
                        \o <<Event("connect", 0, IF connected THEN "ok" ELSE "raise")>>
                        \o (IF connected
                            THEN <<Event("list_blobs", 0,
                                         IF asked THEN "ok" ELSE "empty")>>
                            ELSE <<>>)
                        \o (IF synced
                            THEN <<Event("sync_index", 0,
                                         IF outcome = "ready" THEN "ok" ELSE "raise")>>
                            ELSE <<>>)
    /\ pc' = "constructed"
    /\ UNCHANGED extract_vars
    /\ UNCHANGED <<questions, i, turn_vars, interview_transcript, item>>

\* __init__ (lines 30-60)
Construct ==
    /\ pc = "new"
    /\ \E outcome \in SetupOutcomes, typed \in SyncInputs :
          LET connected == outcome # "connect_raises"
              asked == outcome \in {"sync_raises", "ready"}
              synced == asked /\ lower(typed) = <<"y">>
          IN  /\ outcome = "sync_raises" => synced
              /\ rag_ready' = (outcome = "ready")
              /\ log' = log
                        \o <<Event("connect", 0, IF connected THEN "ok" ELSE "raise")>>
                        \o (IF connected
                            THEN <<Event("list_blobs", 0,
                                         IF asked THEN "ok" ELSE "empty")>>
                            ELSE <<>>)
                        \o (IF synced
                            THEN <<Event("sync_index", 0,
                                         IF outcome = "ready" THEN "ok" ELSE "raise")>>
                            ELSE <<>>)
    /\ pc' = "constructed"
    /\ UNCHANGED extract_vars
    /\ UNCHANGED <<questions, i, turn_vars, interview_transcript, item>>

\* conduct_interview up to the loop (lines 192-208)
StartInterview ==
    /\ pc = "constructed"
    /\ IF ~rag_ready
       THEN /\ pc' = "unavailable"
            /\ UNCHANGED <<questions, i, log>>
       ELSE \E query \in EvidenceOutcomes, completion \in QuestionOutcomes :
               LET qs == generate_questions(rag_ready, query, completion)
               IN  /\ questions' = qs
                   /\ log' = log \o generate_questions_calls(rag_ready, query, completion)
                   /\ IF Truthy(qs)
                      THEN pc' = "pose" /\ i' = 1
                      ELSE pc' = "unavailable" /\ i' = i
    /\ UNCHANGED extract_vars
    /\ UNCHANGED <<rag_ready, turn_vars, interview_transcript, item>>

\* the question is posed and the answer is read (lines 210-214); the locals
\* of the turn before are dead here and are put back to their initial values
PoseQuestion ==
    /\ pc = "pose"
    /\ \E typed \in MainAnswers :
          /\ answer' = typed
          /\ pc' = IF IsQuit(typed) THEN "closing" ELSE "analyze"
          /\ log' = Append(log, Event("pose", i, Flat(typed)))
    /\ analysis' = JNull
    /\ follow_up_question' = EmptyText
    /\ follow_up_answer' = <<>>
    /\ UNCHANGED extract_vars
    /\ UNCHANGED <<rag_ready, questions, i, interview_transcript, item>>

\* line 217
AnalyzeAnswer ==
    /\ pc = "analyze"
    /\ \E query \in EvidenceOutcomes, search \in EvidenceOutcomes,
          completion \in AnalysisOutcomes :
          /\ analysis' = analyze_answer_with_rag(rag_ready, query, search, completion)
          /\ log' = log \o analyze_calls(i, rag_ready, query, search, completion)
    /\ pc' = "check"
    /\ UNCHANGED extract_vars
    /\ UNCHANGED <<rag_ready, questions, i, answer, follow_up_question,
                   follow_up_answer, interview_transcript, item>>

\* lines 219-225: the error test, follow-up generation, the follow-up prompt
FollowUp ==
    /\ pc = "check"
    /\ LET c == ContainsError(analysis)
       IN  IF c.raised
           THEN /\ pc' = "raised"
                /\ UNCHANGED <<follow_up_question, log>>
           ELSE IF c.val
           THEN /\ pc' = "append"
                /\ UNCHANGED <<follow_up_question, log>>
           ELSE \E completion \in FollowUpOutcomes :
                   LET fq == generate_follow_up_question(analysis, completion)
                   IN  /\ follow_up_question' = fq
                       /\ log' = log
                                 \o <<Event("generate_follow_up_question", i, "ok")>>
                                 \o follow_up_calls(i, analysis, completion)
                                 \o (IF Truthy(fq)
                                     THEN <<Event("pose_follow_up", i, "ok")>>
                                     ELSE <<>>)
                       /\ pc' = IF Truthy(fq) THEN "follow_up_input" ELSE "append"
    /\ UNCHANGED extract_vars
    /\ UNCHANGED <<rag_ready, questions, i, answer, analysis, follow_up_answer,
                   interview_transcript, item>>

\* line 226 followed by the quit test of line 214
ReadFollowUpAnswer_QuitEnds ==
    /\ pc = "follow_up_input"
    /\ \E typed \in FollowUpAnswers :
          /\ follow_up_answer' = typed
          /\ log' = Append(log, Event("follow_up_answer", i, Flat(typed)))
          /\ pc' = IF IsQuit(typed) THEN "closing" ELSE "append"
    /\ UNCHANGED extract_vars
    /\ UNCHANGED <<rag_ready, questions, i, answer, analysis, follow_up_question,
                   interview_transcript, item>>

\* line 226
ReadFollowUpAnswer ==
    /\ pc = "follow_up_input"
    /\ \E typed \in FollowUpAnswers :
          /\ follow_up_answer' = typed
          /\ log' = Append(log, Event("follow_up_answer", i, Flat(typed)))
    /\ pc' = "append"
    /\ UNCHANGED extract_vars
    /\ UNCHANGED <<rag_ready, questions, i, answer, analysis, follow_up_question,
                   interview_transcript, item>>

\* the record line 229 appends
\* Turn numbered from 0, as enumerate numbers without its start argument
Turn_ZeroBased(n, q, a, an, fq, fa) ==
    [question_num |-> n - 1, question |-> q, answer |-> a, analysis |-> an,
     follow_up_question |-> fq, follow_up_answer |-> fa]

Turn(n, q, a, an, fq, fa) ==
    [question_num |-> n, question |-> q, answer |-> a, analysis |-> an,
     follow_up_question |-> fq, follow_up_answer |-> fa]

\* lines 229-232 and the step of the for loop
AppendTurn ==
    /\ pc = "append"
    /\ interview_transcript' =
           Append(interview_transcript,
                  Turn(i, PyIter(questions)[i], answer, analysis,
                       follow_up_question, follow_up_answer))
    /\ log' = Append(log, Event("append", i, "ok"))
    /\ IF i < Len(PyIter(questions))
       THEN pc' = "pose" /\ i' = i + 1
       ELSE pc' = "closing" /\ i' = i
    /\ UNCHANGED extract_vars
    /\ UNCHANGED <<rag_ready, questions, turn_vars, item>>

\* lines 234-240
EndInterview ==
    /\ pc = "closing"
    /\ log' = Append(log, Event("interview_ended", Len(interview_transcript), "ok"))
    /\ IF interview_transcript # <<>>
       THEN pc' = "print" /\ item' = 1
       ELSE pc' = "done" /\ item' = item
    /\ UNCHANGED extract_vars
    /\ UNCHANGED <<rag_ready, questions, i, turn_vars, interview_transcript>>

\* one pass of the loop of lines 243-244
PrintAnalysis ==
    /\ pc = "print"
    /\ LET a == interview_transcript[item].analysis
       IN  IF print_individual_analysis_raises(a)
           THEN /\ pc' = "raised"
                /\ item' = item
                /\ log' = Append(log, Event("print_individual_analysis",
                                            interview_transcript[item].question_num,
                                            "raise"))
           ELSE /\ log' = Append(log, Event("print_individual_analysis",
                                            interview_transcript[item].question_num,
                                            print_individual_analysis_shows(a)))
                /\ IF item < Len(interview_transcript)
                   THEN pc' = "print" /\ item' = item + 1
                   ELSE pc' = "report" /\ item' = item
    /\ UNCHANGED extract_vars
    /\ UNCHANGED <<rag_ready, questions, i, turn_vars, interview_transcript>>

\* line 247
FinalReport ==
    /\ pc = "report"
    /\ \E completion \in ReportOutcomes :
          log' = log \o generate_final_report(interview_transcript, completion)
    /\ pc' = "done"
    /\ UNCHANGED extract_vars
    /\ UNCHANGED <<rag_ready, questions, i, turn_vars, interview_transcript, item>>

Next ==
    \/ Construct
    \/ StartInterview
    \/ PoseQuestion
    \/ AnalyzeAnswer
    \/ FollowUp
    \/ ReadFollowUpAnswer
    \/ AppendTurn
    \/ EndInterview
    \/ PrintAnalysis
    \/ FinalReport

Spec == Init /\ [][Next]_vars

\* the single thread takes its next step as long as it has one: every call
\* returns or raises and every input() returns
FairSpec == Spec /\ WF_vars(Next)

----------------------------------------------------------------------------
\* Vocabulary of the properties

Happened(e, n) == \E k \in DOMAIN log : log[k].e = e /\ log[k].n = n
HappenedAs(e, n, r) == \E k \in DOMAIN log : log[k] = Event(e, n, r)

\* what a respondent types to quit: "/quit" in any case, or the localized word
QuitTyped == {"/quit", "/QUIT", "/JONGRYO"}

\* the steps that belong to a turn of the main loop
TurnEvents ==
    {"pose", "query", "search", "complete_analysis", "analysis_diag",
     "generate_follow_up_question", "complete_followup", "follow_up_diag",
     "pose_follow_up", "follow_up_answer", "append"}
SetupEvents == {"connect", "list_blobs", "sync_index"}

BatchLength == Len(PyIter(questions))
LoopLeft == pc \in {"closing", "print", "report", "done", "raised"}

\* analyze_answer_with_rag has returned for turn n
Evaluated(n) == Happened("query", n)
\* the evaluation of turn n, for an evaluated turn
EvaluationOf(n) ==
    IF n <= Len(interview_transcript) THEN interview_transcript[n].analysis
    ELSE analysis
\* the test of line 221 is behind turn n
Decided(n) ==
    \/ n <= Len(interview_transcript)
    \/ n = i /\ Evaluated(n) /\ pc \in {"follow_up_input", "append", "raised"}

HasErrorMarker(v) == IsDict(v) /\ HasKey(v, str_error)
ErrorOnly(v) == IsDict(v) /\ v.keys = <<"error">>
FullyPopulated(v) ==
    /\ IsDict(v)
    /\ ~HasKey(v, str_error)
    /\ HasKey(v, str_fact_checking)
    /\ HasKey(v, str_actionable_feedback)
    /\ HasKey(v, str_content_analysis)
    /\ LET content == DictAt(v, str_content_analysis)
       IN  /\ IsDict(content)
           /\ HasKey(content, str_analytical_depth)
           /\ HasKey(content, str_strategic_insight)

----------------------------------------------------------------------------
\* C1: when the main loop has been left, the transcript holds exactly as many
\* turns as main questions were answered with a non-quit answer, which is the
\* whole batch when no quit was typed, and never more than the batch.
C1_TranscriptHoldsAnswered ==
    LoopLeft =>
        /\ Len(interview_transcript) =
               Cardinality({k \in DOMAIN log : log[k].e = "pose" /\ log[k].r \notin QuitTyped})
        /\ (\A k \in DOMAIN log : log[k].e = "pose" => log[k].r \notin QuitTyped)
               => Len(interview_transcript) = BatchLength
        /\ Len(interview_transcript) <= BatchLength

C4_FollowUpIffNoErrorMarker ==
    /\ \A n \in 1..MaxQuestions :
          Decided(n) =>
              (Happened("generate_follow_up_question", n) <=> ~HasErrorMarker(EvaluationOf(n)))
    /\ \A n \in DOMAIN interview_transcript :
          ~Happened("pose_follow_up", n) =>
              /\ ~Truthy(interview_transcript[n].follow_up_question)
              /\ interview_transcript[n].follow_up_answer = <<>>

\* C5: a quit sentinel typed as a main answer ends the loop there: no turn for
\* that question, no call for it, no later question, and the closing phase
\* starts with the turns collected so far.
C5_QuitEndsMainLoop ==
    \A k \in DOMAIN log :
        (log[k].e = "pose" /\ log[k].r \in QuitTyped) =>
            /\ Len(interview_transcript) = log[k].n - 1
            /\ pc \in {"closing", "print", "report", "done", "raised"}
            /\ \A k2 \in DOMAIN log : k2 > k => log[k2].e \notin TurnEvents
            /\ k < Len(log) => log[k + 1] = Event("interview_ended", log[k].n - 1, "ok")

\* the second question was answered with an upper-case quit and the session
\* closed over the one turn collected
C5_Witness ==
    /\ HappenedAs("pose", 2, "/QUIT")
    /\ pc = "done"
    /\ Len(interview_transcript) = 1
    /\ HappenedAs("final_report", 1, "ok")

\* C6: a quit sentinel typed as a follow-up answer does not end the session:
\* the turn is appended with the sentinel as its follow-up answer and the next
\* main question, if one remains, is posed.
C6_FollowUpQuitIsAnAnswer ==
    \A k \in DOMAIN log :
        (log[k].e = "follow_up_answer" /\ log[k].r \in QuitTyped) =>
            LET n == log[k].n
            IN  /\ k = Len(log) =>
                      pc = "append" /\ i = n /\ Flat(follow_up_answer) = log[k].r
                /\ k < Len(log) =>
                      /\ log[k + 1] = Event("append", n, "ok")
                      /\ n <= Len(interview_transcript)
                      /\ Flat(interview_transcript[n].follow_up_answer) = log[k].r
                /\ k + 1 = Len(log) =>
                      IF n < BatchLength THEN pc = "pose" /\ i = n + 1 ELSE pc = "closing"
                /\ (k + 1 < Len(log) /\ n < BatchLength) => log[k + 2].e = "pose"
                /\ (k + 1 < Len(log) /\ n < BatchLength) => log[k + 2].n = n + 1

\* quit was typed to the follow-up of the first question and the second
\* question was then posed and answered
C6_Witness ==
    /\ HappenedAs("follow_up_answer", 1, "/quit")
    /\ Len(interview_transcript) = 2
    /\ interview_transcript[1].follow_up_answer = str_quit

\* C7: when the retrieval or the search call raises in a turn, the evaluation
\* is only an error marker with a non-empty description and
\* generate_follow_up_question is not invoked for the turn.
C7_EvidenceFailureMarker ==
    \A n \in 1..MaxQuestions :
        (HappenedAs("query", n, "raise") \/ HappenedAs("search", n, "raise")) =>
            /\ ErrorOnly(EvaluationOf(n))
            /\ EvaluationOf(n).items[1].s # <<>>
            /\ ~Happened("generate_follow_up_question", n)

\* C8: a failure inside a turn's analysis stays inside the turn:
\* conduct_interview does not raise, and a response that parses to a value
\* that is no object is stored as an error-marker evaluation, never as it is.
C8_AnalysisFailureContained ==
    /\ pc # "raised"
    /\ \A n \in 1..MaxQuestions :
          Evaluated(n) => IsDict(EvaluationOf(n))
    /\ \A n \in 1..MaxQuestions :
          (Happened("analysis_diag", n) /\ Decided(n)) =>
              HasErrorMarker(EvaluationOf(n))

\* C9 as stated: a failed generation of the question batch ends the session
\* before any question is posed.
C9_GenerationFailureFatal ==
    Happened("questions_diag", 0) =>
        /\ pc = "unavailable"
        /\ ~\E n \in 1..MaxQuestions : Happened("pose", n)
        /\ interview_transcript = <<>>

\* C9 amended: a failed generation of the question batch yields the one
\* fallback question and the interview runs over that question alone.
C9_GenerationFailureFallsBack ==
    Happened("questions_diag", 0) =>
        /\ questions = FallbackQuestions
        /\ pc # "unavailable"
        /\ \A k \in DOMAIN log : log[k].e \in TurnEvents => log[k].n = 1
        /\ \A n \in DOMAIN interview_transcript :
              n = 1 /\ interview_transcript[n].question = FallbackQuestions.items[1]

\* the completion call for the questions raised and the interview over the
\* fallback question ran to its end
C9_Witness ==
    /\ HappenedAs("complete_questions", 0, "raise")
    /\ Len(interview_transcript) = 1
    /\ pc = "done"

\* C10: a session that is not ready, or whose batch is empty, ends unavailable
\* with nothing posed, analysed, appended or reported; a session that is not
\* ready makes no retrieval and no completion call.
SetupFailed ==
    \/ HappenedAs("connect", 0, "raise")
    \/ HappenedAs("list_blobs", 0, "empty")
    \/ HappenedAs("sync_index", 0, "raise")

C10_UnavailableSessions ==
    /\ SetupFailed => ~rag_ready
    /\ (pc # "new" /\ ~rag_ready) =>
          /\ pc \in {"constructed", "unavailable"}
          /\ interview_transcript = <<>>
          /\ \A k \in DOMAIN log : log[k].e \in SetupEvents
    /\ (pc \notin {"new", "constructed"} /\ rag_ready /\ BatchLength = 0) =>
          /\ pc = "unavailable"
          /\ interview_transcript = <<>>
          /\ \A k \in DOMAIN log :
                log[k].e \in SetupEvents \cup {"query_summary", "complete_questions"}
    /\ pc = "unavailable" => ~rag_ready \/ BatchLength = 0

\* the index synchronisation raised and conduct_interview returned at once
C10_Witness ==
    /\ HappenedAs("sync_index", 0, "raise")
    /\ pc = "unavailable"

----------------------------------------------------------------------------
\* The closing phase

\* the positions of the log at which step e happened
Positions(e) == {k \in DOMAIN log : log[k].e = e}
\* conduct_interview has returned or raised
RunEnded == pc \in {"done", "unavailable", "raised"}
\* the main loop was left and line 234 announced the end of the interview
TranscriptClosed == \E k \in DOMAIN log : log[k].e = "interview_ended"

\* C11: generate_final_report is invoked exactly once in a run whose closed
\* transcript holds at least one turn and never when it is empty; it is invoked
\* after the last append, on the whole transcript, and nothing is appended after.
C11_ReportOnceAfterClose ==
    /\ Cardinality(Positions("final_report")) <= 1
    /\ \A k \in Positions("final_report") :
          /\ interview_transcript # <<>>
          /\ log[k].n = Len(interview_transcript)
          /\ \A a \in Positions("append") : a < k
    /\ (RunEnded /\ TranscriptClosed /\ interview_transcript # <<>>) =>
          Positions("final_report") # {}
    /\ interview_transcript = <<>> => Positions("final_report") = {}

\* the positions of the log at which the individual analysis of turn n was emitted
Emitted(n) ==
    {k \in Positions("print_individual_analysis") : log[k].n = n /\ log[k].r # "raise"}

\* C12: no individual analysis is emitted while the main loop runs; once the
\* loop has ended they are emitted once per turn, in increasing sequence
\* order, and the aggregate report is requested only after the last of them.
C12_DisplayDeferred ==
    /\ \A k \in Positions("print_individual_analysis") :
          /\ \E c \in Positions("interview_ended") : c < k
          /\ \A t \in DOMAIN log : log[t].e \in TurnEvents => t < k
    /\ \A k, m \in Positions("print_individual_analysis") :
          k < m => log[k].n < log[m].n
    /\ \A r \in Positions("final_report") :
          \A n \in DOMAIN interview_transcript :
              \E k \in Emitted(n) : k < r
    /\ (RunEnded /\ TranscriptClosed) =>
          \A n \in DOMAIN interview_transcript : Cardinality(Emitted(n)) = 1

\* the response format the report prompt asks for (lines 275-283)
HasReportStructure(v) ==
    /\ IsDict(v)
    /\ HasKey(v, str_overall_summary)
    /\ HasKey(v, str_growth_potential)
    /\ HasKey(v, str_core_competency_analysis)
    /\ LET comps == DictAt(v, str_core_competency_analysis)
       IN  comps.t = "list" /\ \A n \in DOMAIN comps.items : IsDict(comps.items[n])

\* the text the report completion call of position k of the log returned
ReportResponse(k) == CHOOSE t \in ReportTexts : Flat(t) = log[k].r

\* generating or parsing the final report failed
ReportFailed ==
    \/ Positions("final_report") # {} /\ Positions("complete_report") = {}
    \/ \E k \in Positions("complete_report") :
          \/ log[k].r = "raise"
          \/ LET report_data == json_loads(extract_json_from_response(ReportResponse(k)))
             IN  ~report_data.ok \/ ~HasReportStructure(report_data.v)

ReportParts == {"report_header", "report_summary", "report_competencies", "report_growth"}

\* C13: when generating or parsing the final report fails, no part of a final
\* report is emitted and a diagnostic is shown; the individual analyses of all
\* turns were emitted before and conduct_interview returns without raising.
C13_ReportFailureContained ==
    ReportFailed =>
        /\ \A k \in DOMAIN log : log[k].e \notin ReportParts
        /\ Positions("report_diag") # {}
        /\ \A n \in DOMAIN interview_transcript :
              \E k \in Emitted(n) : \A r \in Positions("final_report") : k < r
        /\ pc = "done"

----------------------------------------------------------------------------
\* A call of extract_json_from_response alone, on every text made of a few pieces

MaxPieces == 3

ObjectText == <<"{">> \o Member(<<"a">>, <<"1">>) \o <<"}">>

Pieces ==
    { str_fence_open, str_fence_close, <<"{">>, <<"}">>, <<"x">>, <<"\n">>, <<" ">>,
      ObjectText, Fenced(ObjectText), Fenced(<<"[", "1", "]">>) }

RECURSIVE Concat(_)
Concat(parts) == IF parts = <<>> THEN <<>> ELSE parts[1] \o Concat(Tail(parts))

ResponseTexts ==
    {Concat(parts) : parts \in UNION {[1..n -> Pieces] : n \in 0..MaxPieces}}

InitExtract ==
    /\ pc = "extract"
    /\ text \in ResponseTexts
    /\ extracted = <<>>
    /\ rag_ready = FALSE
    /\ questions = JList(<<>>)
    /\ i = 0
    /\ answer = <<>>
    /\ analysis = JNull
    /\ follow_up_question = EmptyText
    /\ follow_up_answer = <<>>
    /\ interview_transcript = <<>>
    /\ item = 0
    /\ log = <<>>

ExtractResponse ==
    /\ pc = "extract"
    /\ extracted' = extract_json_from_response(text)
    /\ pc' = "extracted"
    /\ UNCHANGED <<rag_ready, questions, i, turn_vars, interview_transcript, item, log, text>>

NextExtract == ExtractResponse

SpecExtract == InitExtract /\ [][NextExtract]_vars

\* a json fence of s opens at p: the tag, and a closing fence somewhere after it
ClosingFences(s, p) ==
    {q \in (p + Len(str_fence_open))..Len(s) : StartsAt(s, q, str_fence_close)}
JsonFences(s) ==
    {p \in 1..Len(s) : StartsAt(s, p, str_fence_open) /\ ClosingFences(s, p) # {}}
FirstFenceContent(s) ==
    LET p == SetMin(JsonFences(s))
    IN  SubSeq(s, p + Len(str_fence_open), SetMin(ClosingFences(s, p)) - 1)
Trim(s) ==
    LET solid == {k \in 1..Len(s) : s[k] \notin Whitespace}
    IN  IF solid = {} THEN <<>> ELSE SubSeq(s, SetMin(solid), SetMax(solid))

\* the span from the first opening brace to the last closing brace, or all of s
BraceSpanOrText(s) ==
    IF \E b \in 1..Len(s) : s[b] = "{" /\ \E e \in (b + 1)..Len(s) : s[e] = "}"
    THEN LET b == SetMin({k \in 1..Len(s) : s[k] = "{"})
             e == SetMax({k \in 1..Len(s) : s[k] = "}"})
         IN  SubSeq(s, b, e)
    ELSE s

OnlyWhitespace(s, from, to) == \A k \in from..to : s[k] \in Whitespace

\* <<p, b, e>>: a json tag at p, then only whitespace, then s[b..e] running from
\* an opening to a closing brace, then only whitespace, then a closing fence
ObjectFenceSpans(s) ==
    LET tags == {p \in 1..Len(s) : StartsAt(s, p, str_fence_open)}
        begins(p) ==
            {b \in (p + Len(str_fence_open))..Len(s) :
                s[b] = "{" /\ OnlyWhitespace(s, p + Len(str_fence_open), b - 1)}
        ends(b) ==
            {e \in (b + 1)..Len(s) :
                /\ s[e] = "}"
                /\ \E q \in (e + 1)..Len(s) :
                      StartsAt(s, q, str_fence_close) /\ OnlyWhitespace(s, e + 1, q - 1)}
    IN  UNION {UNION {{<<p, b, e>> : e \in ends(b)} : b \in begins(p)} : p \in tags}

\* C14: for a text with a json fence the result is the whitespace-trimmed
\* content of the first json fence, whatever that content is and whatever
\* follows the fence.
C14_FirstFenceContent ==
    (pc = "extracted" /\ JsonFences(text) # {}) =>
        extracted = Trim(FirstFenceContent(text))

\* C14 amended: when some json tag is followed, after whitespace alone, by a
\* span from an opening to a closing brace that only whitespace separates from
\* a closing fence, the result is that span for the first such tag, ending at
\* the first such closing brace, also when further fences follow; when no tag
\* is, the fences are ignored and the result is the span from the first
\* opening to the last closing brace of the text, or the text itself.
C14_FirstObjectFence ==
    pc = "extracted" =>
        IF ObjectFenceSpans(text) # {}
        THEN \E sp \in ObjectFenceSpans(text) :
                /\ extracted = SubSeq(text, sp[2], sp[3])
                /\ \A other \in ObjectFenceSpans(text) :
                      \/ sp[1] < other[1]
                      \/ sp[1] = other[1] /\ sp[3] <= other[3]
        ELSE extracted = BraceSpanOrText(text)

\* the object was taken out of the first of two fences
C14_Witness ==
    /\ pc = "extracted"
    /\ text = Fenced(ObjectText) \o <<"x">> \o Fenced(ObjectText)
    /\ extracted = ObjectText

\* C15: for a text without a json fence the call returns, and what it returns is
\* the span from the first opening brace to the last closing brace when an
\* opening brace is followed later by a closing one, and the text otherwise.
C15_BraceSpanWithoutFence ==
    /\ pc = "extract" => ENABLED ExtractResponse
    /\ (pc = "extracted" /\ JsonFences(text) = {}) =>
          extracted = BraceSpanOrText(text)

\* noise, an object and a further closing brace: the span ends at the last brace
C15_Witness ==
    /\ pc = "extracted"
    /\ text = <<"x">> \o ObjectText \o <<"}">>
    /\ extracted = ObjectText \o <<"}">>

----------------------------------------------------------------------------
\* The calls of the session

RetrievalCalls == {"query_summary", "query"}
SearchCalls == {"search"}
CompletionCalls ==
    {"complete_questions", "complete_analysis", "complete_followup", "complete_report"}
ExternalCalls == RetrievalCalls \cup SearchCalls \cup CompletionCalls

\* the positions of the log that belong to the closing phase
ClosingPositions ==
    {k \in DOMAIN log : \E c \in Positions("interview_ended") : c < k}

\* C16: the closing phase makes no retrieval call, no search call and no
\* per-turn completion call, so no evaluation is computed again; it makes exactly
\* one completion call, the aggregate report request, when the transcript has a
\* turn, and no external call at all when it has none.
C16_ClosingCalls ==
    /\ \A k \in ClosingPositions :
          log[k].e \in ExternalCalls => log[k].e = "complete_report"
    /\ Cardinality(Positions("complete_report")) <= 1
    /\ interview_transcript = <<>> => Positions("complete_report") = {}
    /\ (RunEnded /\ TranscriptClosed /\ interview_transcript # <<>>) =>
          Cardinality(Positions("complete_report")) = 1

\* the place of a step in the chain of a turn, 0 for a step outside the chain
ChainRank(e) ==
    CASE e = "query" -> 1
      [] e = "search" -> 2
      [] e = "complete_analysis" -> 3
      [] e = "complete_followup" -> 4
      [] e = "pose_follow_up" -> 5
      [] e = "append" -> 6
      [] OTHER -> 0
InChain(ev) == ChainRank(ev.e) > 0
IsTurnEvent(ev) == ev.e \in TurnEvents
\* the steps of the chains, and the steps of the turns, in the order they happened
ChainLog == SelectSeq(log, InChain)
TurnLog == SelectSeq(log, IsTurnEvent)

\* the follow-up question generated in turn n
FollowUpQuestionOf(n) ==
    IF n <= Len(interview_transcript) THEN interview_transcript[n].follow_up_question
    ELSE follow_up_question

\* C17: within a turn the retrieval call, the search call, the analysis
\* completion call, the follow-up completion call, the follow-up prompt and the
\* append come in this order, each at most once; the follow-up completion call
\* is made only for an evaluation without error marker and the follow-up prompt
\* only for a non-empty follow-up text; a raising retrieval, search or analysis
\* call skips every later call of its turn; no step of turn n + 1 comes before
\* the append of turn n.
C17_TurnCallOrder ==
    /\ LET chain == ChainLog
       IN  \A k \in 1..(Len(chain) - 1) :
              chain[k].n = chain[k + 1].n =>
                  ChainRank(chain[k].e) < ChainRank(chain[k + 1].e)
    /\ LET turns == TurnLog
       IN  /\ turns # <<>> => turns[1].n = 1
           /\ \A k \in 1..(Len(turns) - 1) :
                  \/ turns[k + 1].n = turns[k].n
                  \/ turns[k + 1].n = turns[k].n + 1 /\ turns[k].e = "append"
    /\ \A n \in 1..MaxQuestions :
          /\ Happened("search", n) => HappenedAs("query", n, "ok")
          /\ Happened("complete_analysis", n) => HappenedAs("search", n, "ok")
          /\ Happened("complete_followup", n) =>
                /\ HappenedAs("complete_analysis", n, "ok")
                /\ ~ContainsError(EvaluationOf(n)).raised
                /\ ~ContainsError(EvaluationOf(n)).val
          /\ Happened("pose_follow_up", n) =>
                /\ HappenedAs("complete_followup", n, "ok")
                /\ Truthy(FollowUpQuestionOf(n))
          /\ Happened("append", n) => Happened("query", n)

\* a turn went through the whole chain and the next one stopped at a raising search
C17_Witness ==
    /\ Happened("pose_follow_up", 1)
    /\ Happened("append", 1)
    /\ HappenedAs("search", 2, "raise")
    /\ Happened("append", 2)

----------------------------------------------------------------------------
\* The turns of the transcript

\* the turn at position n carries the number n and the n-th generated question
NumberedInOrder ==
    \A n \in DOMAIN interview_transcript :
        /\ interview_transcript[n].question_num = n
        /\ n <= BatchLength
        /\ interview_transcript[n].question = PyIter(questions)[n]

\* a step leaves the turns appended so far as they are
TurnsKept ==
    /\ Len(interview_transcript) <= Len(interview_transcript')
    /\ \A n \in DOMAIN interview_transcript :
          interview_transcript'[n] = interview_transcript[n]

\* C18: in every state the sequence numbers of the transcript are 1, 2, ..., k
\* in transcript order, turn n holds the n-th generated question, and no step
\* changes a turn that was appended.
C18_SequenceNumbers == [](NumberedInOrder) /\ [][TurnsKept]_vars

\* two turns were appended, numbered 1 and 2
C18_Witness ==
    /\ Len(interview_transcript) = 2
    /\ interview_transcript[1].question_num = 1
    /\ interview_transcript[2].question_num = 2
    /\ interview_transcript[1].question # interview_transcript[2].question

\* C19: in every appended turn the follow-up question and the follow-up answer
\* are both present or both empty, and both are empty in a turn whose
\* evaluation is an error marker.
C19_FollowUpPairWhole ==
    \A n \in DOMAIN interview_transcript :
        LET turn == interview_transcript[n]
        IN  /\ turn.follow_up_answer # <<>> => Truthy(turn.follow_up_question)
            /\ Truthy(turn.follow_up_question) => turn.follow_up_answer # <<>>
            /\ HasErrorMarker(turn.analysis) =>
                  /\ ~Truthy(turn.follow_up_question)
                  /\ turn.follow_up_answer = <<>>

----------------------------------------------------------------------------
\* Termination

\* conduct_interview returned: after the closing phase, or at once
ClosedOrUnavailable == pc \in {"done", "unavailable"}

\* at most one main question and one follow-up question per question of the
\* batch, and no question of the batch posed twice
PosedWithinBatch ==
    /\ Cardinality(Positions("pose")) <= BatchLength
    /\ Cardinality(Positions("pose_follow_up")) <= BatchLength
    /\ \A k, m \in Positions("pose") : log[k].n = log[m].n => k = m
    /\ \A k \in Positions("pose") : log[k].n \in 1..BatchLength

\* C20: whatever the respondent types and whatever the calls return or raise,
\* conduct_interview eventually returns, closed or unavailable, having posed at
\* most as many main questions and as many follow-up questions as the batch
\* has questions, each question of the batch at most once.
C20_Terminates == <>ClosedOrUnavailable /\ []PosedWithinBatch

====
